---- MODULE Spec2Model ----
(***************************************************************************)
(* Model of the facer backend (Express + node-postgres + pgvector).        *)
(* The store is the relational database: user_photos, target_photos,       *)
(* contests and contest_entries.  Every route handler is one action,       *)
(* except PATCH /update_contest_top3, whose SELECT and UPDATE are two      *)
(* separate awaited queries and therefore two steps of a handler           *)
(* instance.                                                               *)
(*                                                                         *)
(* Numbers: cosine values are kept in fixed point, Scale units for 1.0.    *)
(* NaN, null and undefined are integers outside the range of every score   *)
(* and every id, so that they can sit in the same column as a number.      *)
(***************************************************************************)
EXTENDS Integers, Sequences, FiniteSets, TLC

\* ------------------------------------------------------------------ bounds
MaxUsers == 2
MaxUserPhotos == 2
MaxTargetPhotos == 2
MaxContests == 2
RankContests == 1
FrameEntries == 2
MaxAccounts == 2
MaxFriendships == 2
MaxEntries == 3
MaxLeaks == 10
NumHandlers == 2
Scale == 1000

\* ------------------------------------------------------- program constants
EmbeddingDim == 512
PoolMax == 10

\* --------------------------------------------------------- JS/SQL values
NaN == 2 * Scale
Null == NaN + 1
Undefined == NaN + 2

Falsy(v) == v = 0 \/ v = NaN \/ v = Null \/ v = Undefined

\* JavaScript's  v || null
OrNull(v) == IF Falsy(v) THEN Null ELSE v

\* ------------------------------------------------------------ embeddings
\* An array of n numbers whose first two components are x and y and whose
\* other components are 0.
Vec(x, y, n) == [i \in 1..n |-> IF i = 1 THEN x ELSE IF i = 2 THEN y ELSE 0]

\* What POST ${FLASK_URL}/embedding can answer: a body whose `embedding` is
\* an array, a body without an array, or no answer (axios.post rejects).
FlaskArray(v) == [kind |-> "array", embedding |-> v]
FlaskNoArray == [kind |-> "noarray", embedding |-> <<>>]
FlaskError == [kind |-> "error", embedding |-> <<>>]
FlaskNotCalled == [kind |-> "notcalled", embedding |-> <<>>]

GoodArrays == {Vec(1, 0, EmbeddingDim), Vec(1, 1, EmbeddingDim),
               Vec(0, 1, EmbeddingDim), Vec(0, 0, EmbeddingDim)}
BadArrays == {Vec(1, 0, EmbeddingDim - 1), Vec(1, 0, EmbeddingDim + 1)}
AllArrays == GoodArrays \cup BadArrays

\* ---------------------------------------------------- cosine similarity
RECURSIVE DotRange(_, _, _, _)
DotRange(x, y, lo, hi) ==
  IF lo > hi THEN 0
  ELSE IF lo = hi THEN x[lo] * y[lo]
  ELSE LET mid == (lo + hi) \div 2
       IN DotRange(x, y, lo, mid) + DotRange(x, y, mid + 1, hi)

dot(x, y) == DotRange(x, y, 1, Len(x))

\* Largest r with r * r <= n, for n in 0 .. Scale * Scale.
ISqrt(n) == CHOOSE r \in 0..Scale : r * r <= n /\ (r + 1) * (r + 1) > n

\* a / (b * c) with b = sqrt(dot(x,x)) and c = sqrt(dot(y,y)), in units of
\* 1/Scale; 0/0 is NaN.
Cosine(x, y) ==
  LET a == dot(x, y)
      bb == dot(x, x)
      cc == dot(y, y)
  IN IF bb = 0 \/ cc = 0 THEN NaN
     ELSE IF a >= 0 THEN ISqrt((a * a * Scale * Scale) \div (bb * cc))
     ELSE 0 - ISqrt((a * a * Scale * Scale) \div (bb * cc))

\* The cosine of every pair of equally long arrays of the model, computed once.
\* (the comparison makes TLC tabulate the function instead of evaluating
\* Cosine at every application)
CosineTable ==
  LET f == [p \in {q \in AllArrays \X AllArrays : Len(q[1]) = Len(q[2])} |->
              Cosine(p[1], p[2])]
  IN IF f = f THEN f ELSE f

\* JS values that carry a vector: the text of a pgvector column as
\* node-postgres hands it over (a string), or an array of numbers.
JsString(v) == [type |-> "string", value |-> v]
JsArray(v) == [type |-> "array", value |-> v]

\* `[${arr.join(',')}]`
VectorLiteral(arr) == JsString(arr)

\* the text -> vector input conversion of the store ($n, $n::vector)
PgVectorIn(lit) == lit.value

\* a vector column in a result row
PgVectorOut(v) == JsString(v)

\* JSON.parse of the text of a vector column
JSONparse(s) == JsArray(s.value)

\* compute-cosine-similarity: throws unless both arguments are arrays of
\* the same length.
similarityThrows(x, y) ==
  \/ x.type # "array"
  \/ y.type # "array"
  \/ Len(x.value) # Len(y.value)

\* variant: the projection of y on x, dot(x, y) / dot(x, x)
similarity_projection(x, y) ==
  IF dot(x.value, x.value) = 0 THEN NaN
  ELSE (dot(x.value, y.value) * Scale) \div dot(x.value, x.value)

similarity(x, y) == CosineTable[<<x.value, y.value>>]

\* pgvector  a <=> b : cosine distance, an error when the dimensions differ
CosineDistanceThrows(a, b) == Len(a) # Len(b)

CosineDistance(a, b) ==
  LET c == CosineTable[<<a, b>>]
  IN IF c = NaN THEN NaN ELSE Scale - c

\* 1 - d  in SQL float arithmetic
OneMinus(d) == IF d = NaN THEN NaN ELSE Scale - d

\* Order of float values in ORDER BY: NaN is greater than every number and
\* equal to itself.
PgFloatLE(a, b) == b = NaN \/ (a # NaN /\ a <= b)

PgFloatLT(a, b) == PgFloatLE(a, b) /\ a # b

\* ------------------------------------------------------------------ state
VARIABLES
  user_photos,      \* table user_photos; the index of a row is user_photo_id
  target_photos,    \* table target_photos; the index is target_photo_id
  contests,         \* table contests; the index is contest_id
  contest_entries,  \* table contest_entries; the index is contest_entry_id
  top3,             \* the running PATCH /update_contest_top3 handlers
  pool_clients,     \* clients of the pool that are checked out
  res,              \* the request completed last and its response
  users,            \* table users; the index of a row is user_id
  friendships,      \* table friendships; the index is friendships_id
  registering       \* the running POST /auth/register handlers

vars == <<user_photos, target_photos, contests, contest_entries, top3,
          pool_clients, res, users, friendships, registering>>

\* the account tables and their handlers
accounts == <<users, friendships, registering>>

Handlers == 1..NumHandlers
Users == 1..MaxUsers

Response(op, req, status, body) ==
  [op |-> op, req |-> req, status |-> status, body |-> body]

NoBody == [error |-> TRUE]

Init ==
  /\ user_photos = <<>>
  /\ target_photos = <<>>
  /\ contests = <<>>
  /\ contest_entries = <<>>
  /\ top3 = [h \in Handlers |-> [pc |-> "idle", contest_id |-> 0, rows |-> <<>>]]
  /\ pool_clients = 0
  /\ res = Response("none", NoBody, 0, NoBody)
  /\ users = <<>>
  /\ friendships = <<>>
  /\ registering = [h \in Handlers |-> [pc |-> "idle", email |-> "", nickname |-> "",
                                         password |-> ""]]

\* pool.connect() resolves only while a client is free
CanConnect == pool_clients < PoolMax

\* clients that were checked out and never released
Leaked ==
  pool_clients - Cardinality({h \in Handlers : top3[h].pc = "read"})
               - Cardinality({h \in Handlers : registering[h].pc = "checked"})

\* variant: the length is not looked at
ValidEmbedding_anyLength(flask) == flask.kind = "array"

\* Array.isArray(raw) && raw.length === 512
ValidEmbedding(flask) ==
  flask.kind = "array" /\ Len(flask.embedding) = EmbeddingDim

\* ------------------------------------------------------- POST /uploaduser
uploaduser(userId, flask) ==
  /\ CanConnect
  /\ IF ValidEmbedding(flask)
     THEN /\ Len(user_photos) < MaxUserPhotos
          /\ user_photos' = Append(user_photos,
               [user_id |-> userId,
                embedding_vector |-> PgVectorIn(VectorLiteral(flask.embedding)),
                uploaded_at |-> Len(user_photos) + 1])
          /\ res' = Response("uploaduser", [user_id |-> userId, flask |-> flask], 200,
                             [user_photo_id |-> Len(user_photos) + 1])
     ELSE /\ res' = Response("uploaduser", [user_id |-> userId, flask |-> flask], 500, NoBody)
          /\ UNCHANGED user_photos
  /\ UNCHANGED <<target_photos, contests, contest_entries, top3, pool_clients, accounts>>

\* ----------------------------------------------------- POST /uploadtarget
uploadtarget(hasMeta, flask) ==
  /\ CanConnect
  /\ IF ~hasMeta
     THEN /\ res' = Response("uploadtarget", [meta |-> hasMeta, flask |-> FlaskNotCalled],
                             400, NoBody)
          /\ UNCHANGED target_photos
     ELSE IF ValidEmbedding(flask)
     THEN /\ Len(target_photos) < MaxTargetPhotos
          /\ target_photos' = Append(target_photos,
               [embedding_vector |-> PgVectorIn(VectorLiteral(flask.embedding))])
          /\ res' = Response("uploadtarget", [meta |-> hasMeta, flask |-> flask], 200,
                             [target_photo_id |-> Undefined])
     ELSE /\ res' = Response("uploadtarget", [meta |-> hasMeta, flask |-> flask], 500, NoBody)
          /\ UNCHANGED target_photos
  /\ UNCHANGED <<user_photos, contests, contest_entries, top3, pool_clients, accounts>>

\* ------------------------------------------------------ POST /contestsadd
\* status is the `status` field of the body, "" when it is missing
contestsadd(hasFile, hasParams, status, flask) ==
  IF ~hasFile \/ ~hasParams \/ status = ""
  THEN /\ res' = Response("contestsadd", [status |-> status, flask |-> FlaskNotCalled],
                          400, NoBody)
       /\ UNCHANGED <<user_photos, target_photos, contests, contest_entries, top3,
                      pool_clients, accounts>>
  ELSE IF ~ValidEmbedding(flask)
  THEN /\ res' = Response("contestsadd", [status |-> status, flask |-> flask], 500, NoBody)
       /\ UNCHANGED <<user_photos, target_photos, contests, contest_entries, top3,
                      pool_clients, accounts>>
  ELSE /\ CanConnect
       /\ Len(contests) < MaxContests
       /\ contests' = Append(contests,
            [status |-> status,
             target_embedding |-> PgVectorIn(VectorLiteral(flask.embedding)),
             first_user_id |-> Null,
             second_user_id |-> Null,
             third_user_id |-> Null])
       /\ res' = Response("contestsadd", [status |-> status, flask |-> flask], 200,
                          [contest_id |-> Len(contests) + 1])
       /\ UNCHANGED <<user_photos, target_photos, contest_entries, top3, pool_clients, accounts>>

\* ------------------------------------------------ POST /contest_entry_add
\* variant: the user's latest photo instead of the one asked for
SelectUserPhoto_latestOfUser(user_id, user_photo_id) ==
  LET mine == {i \in 1..Len(user_photos) : user_photos[i].user_id = user_id}
  IN IF user_photo_id \in mine
     THEN <<user_photos[CHOOSE i \in mine : \A j \in mine : j <= i]>>
     ELSE <<>>

\* SELECT embedding_vector FROM user_photos
\*   WHERE user_id = $1 AND user_photo_id = $2
SelectUserPhoto(user_id, user_photo_id) ==
  IF /\ user_photo_id \in 1..Len(user_photos)
     /\ user_photos[user_photo_id].user_id = user_id
  THEN <<user_photos[user_photo_id]>> ELSE <<>>

\* an id of 0 is a missing (falsy) body field
contest_entry_add(contest_id, user_id, user_photo_id) ==
  LET req == [contest_id |-> contest_id, user_id |-> user_id,
              user_photo_id |-> user_photo_id]
      getter == IF contest_id \in 1..Len(contests) THEN <<contests[contest_id]>> ELSE <<>>
      getter2 == SelectUserPhoto(user_id, user_photo_id)
      vec1 == JSONparse(PgVectorOut(getter[1].target_embedding))
      vec2 == JSONparse(PgVectorOut(getter2[1].embedding_vector))
  IN IF contest_id = 0 \/ user_id = 0 \/ user_photo_id = 0
     THEN /\ res' = Response("contest_entry_add", req, 400, NoBody)
          /\ UNCHANGED <<user_photos, target_photos, contests, contest_entries, top3,
                         pool_clients, accounts>>
     ELSE /\ CanConnect
          /\ IF getter = <<>> \/ getter2 = <<>> \/ similarityThrows(vec1, vec2)
             THEN /\ res' = Response("contest_entry_add", req, 500, NoBody)
                  /\ UNCHANGED contest_entries
             ELSE /\ Len(contest_entries) < MaxEntries
                  /\ LET row == [contest_entry_id |-> Len(contest_entries) + 1,
                                 contest_id |-> contest_id,
                                 user_id |-> user_id,
                                 user_photo_id |-> user_photo_id,
                                 similarity_score |-> similarity(vec1, vec2),
                                 submitted_at |-> Len(contest_entries) + 1]
                     IN /\ contest_entries' = Append(contest_entries, row)
                        /\ res' = Response("contest_entry_add", req, 200, row)
          /\ UNCHANGED <<user_photos, target_photos, contests, top3, pool_clients, accounts>>

\* --------------------------------------------- PATCH /update_contest_top3
Range(s) == {s[i] : i \in 1..Len(s)}

EntriesOf(contest_id) ==
  {e \in Range(contest_entries) : e.contest_id = contest_id}

\* SELECT * FROM contest_entries WHERE contest_id = $1
\*   ORDER BY similarity_score DESC LIMIT 3
\* Every answer the store may give: rows with equal scores come in any order.
OrderByScoreDescLimit3(contest_id) ==
  LET S == EntriesOf(contest_id)
      n == IF Cardinality(S) < 3 THEN Cardinality(S) ELSE 3
  IN {rows \in [1..n -> S] :
        /\ \A i, j \in 1..n : i < j =>
             /\ rows[i] # rows[j]
             /\ PgFloatLE(rows[j].similarity_score, rows[i].similarity_score)
        /\ \A e \in S \ Range(rows) :
             PgFloatLE(e.similarity_score, rows[n].similarity_score)}

\* getter.rows[i] || {}
EmptyObject ==
  [contest_entry_id |-> Undefined, contest_id |-> Undefined, user_id |-> Undefined,
   user_photo_id |-> Undefined, similarity_score |-> Undefined,
   submitted_at |-> Undefined]

RowOrEmpty(rows, i) == IF i <= Len(rows) THEN rows[i] ELSE EmptyObject

\* variant: second and third place exchanged
WinnerParams_swapped(rows) ==
  [first_user_id |-> OrNull(RowOrEmpty(rows, 1).user_id),
   second_user_id |-> OrNull(RowOrEmpty(rows, 3).user_id),
   third_user_id |-> OrNull(RowOrEmpty(rows, 2).user_id)]

\* variant: the photo ids of the rows instead of their user ids
WinnerParams_photoIds(rows) ==
  [first_user_id |-> OrNull(RowOrEmpty(rows, 1).user_photo_id),
   second_user_id |-> OrNull(RowOrEmpty(rows, 2).user_photo_id),
   third_user_id |-> OrNull(RowOrEmpty(rows, 3).user_photo_id)]

\* the parameters $1, $2, $3 of the UPDATE
WinnerParams(rows) ==
  [first_user_id |-> OrNull(RowOrEmpty(rows, 1).user_id),
   second_user_id |-> OrNull(RowOrEmpty(rows, 2).user_id),
   third_user_id |-> OrNull(RowOrEmpty(rows, 3).user_id)]

\* the body of the 200 response
Top3Body(rows) ==
  [first_photo_id |-> OrNull(RowOrEmpty(rows, 1).user_photo_id),
   second_photo_id |-> OrNull(RowOrEmpty(rows, 2).user_photo_id),
   third_photo_id |-> OrNull(RowOrEmpty(rows, 3).user_photo_id),
   first_score |-> OrNull(RowOrEmpty(rows, 1).similarity_score),
   second_score |-> OrNull(RowOrEmpty(rows, 2).similarity_score),
   third_score |-> OrNull(RowOrEmpty(rows, 3).similarity_score)]

\* variant: the UPDATE also overwrites the target embedding
UpdateWinners_resetsTarget(contest_id, w) ==
  [c \in 1..Len(contests) |->
     IF c = contest_id
     THEN [contests[c] EXCEPT !.first_user_id = w.first_user_id,
                              !.second_user_id = w.second_user_id,
                              !.third_user_id = w.third_user_id,
                              !.target_embedding = Vec(0, 0, EmbeddingDim)]
     ELSE contests[c]]

\* variant: the UPDATE has no WHERE clause
UpdateWinners_everyContest(contest_id, w) ==
  [c \in 1..Len(contests) |->
     [contests[c] EXCEPT !.first_user_id = w.first_user_id,
                         !.second_user_id = w.second_user_id,
                         !.third_user_id = w.third_user_id]]

\* UPDATE contests SET first_user_id=$1, second_user_id=$2, third_user_id=$3
\*   WHERE contest_id = $4
UpdateWinners(contest_id, w) ==
  [c \in 1..Len(contests) |->
     IF c = contest_id
     THEN [contests[c] EXCEPT !.first_user_id = w.first_user_id,
                              !.second_user_id = w.second_user_id,
                              !.third_user_id = w.third_user_id]
     ELSE contests[c]]

\* the request has no contest_id
update_contest_top3_400 ==
  /\ res' = Response("update_contest_top3", [contest_id |-> 0], 400, NoBody)
  /\ UNCHANGED <<user_photos, target_photos, contests, contest_entries, top3,
                 pool_clients, accounts>>

\* pool.connect() and the SELECT
update_contest_top3_select(h, contest_id) ==
  /\ top3[h].pc = "idle"
  /\ contest_id # 0
  /\ CanConnect
  /\ \E rows \in OrderByScoreDescLimit3(contest_id) :
       top3' = [top3 EXCEPT ![h] = [pc |-> "read", contest_id |-> contest_id,
                                    rows |-> rows]]
  /\ pool_clients' = pool_clients + 1
  /\ UNCHANGED <<user_photos, target_photos, contests, contest_entries, res, accounts>>

\* variant: the UPDATE takes its rows from a SELECT of its own
update_contest_top3_update_reread(h) ==
  /\ top3[h].pc = "read"
  /\ \E rows \in OrderByScoreDescLimit3(top3[h].contest_id) :
       /\ contests' = UpdateWinners(top3[h].contest_id, WinnerParams(rows))
       /\ res' = Response("update_contest_top3", [contest_id |-> top3[h].contest_id],
                          200, Top3Body(rows))
  /\ top3' = [top3 EXCEPT ![h] = [pc |-> "idle", contest_id |-> 0, rows |-> <<>>]]
  /\ pool_clients' = pool_clients - 1
  /\ UNCHANGED <<user_photos, target_photos, contest_entries, accounts>>

\* variant: the winners of a closed contest are left as they are
update_contest_top3_update_unlessClosed(h) ==
  /\ top3[h].pc = "read"
  /\ contests' =
       IF /\ top3[h].contest_id \in 1..Len(contests)
          /\ contests[top3[h].contest_id].status = "closed"
       THEN contests
       ELSE UpdateWinners(top3[h].contest_id, WinnerParams(top3[h].rows))
  /\ res' = Response("update_contest_top3", [contest_id |-> top3[h].contest_id], 200,
                     Top3Body(top3[h].rows))
  /\ top3' = [top3 EXCEPT ![h] = [pc |-> "idle", contest_id |-> 0, rows |-> <<>>]]
  /\ pool_clients' = pool_clients - 1
  /\ UNCHANGED <<user_photos, target_photos, contest_entries, accounts>>

\* the UPDATE, the response and client.release()
update_contest_top3_update(h) ==
  /\ top3[h].pc = "read"
  /\ contests' = UpdateWinners(top3[h].contest_id, WinnerParams(top3[h].rows))
  /\ res' = Response("update_contest_top3", [contest_id |-> top3[h].contest_id], 200,
                     Top3Body(top3[h].rows))
  /\ top3' = [top3 EXCEPT ![h] = [pc |-> "idle", contest_id |-> 0, rows |-> <<>>]]
  /\ pool_clients' = pool_clients - 1
  /\ UNCHANGED <<user_photos, target_photos, contest_entries, accounts>>

\* -------------------------------------------------- PATCH /contests/status
contests_status(contest_id, status) ==
  LET req == [contest_id |-> contest_id, status |-> status]
  IN IF contest_id = 0 \/ status = ""
     THEN /\ res' = Response("contests_status", req, 400, NoBody)
          /\ UNCHANGED <<user_photos, target_photos, contests, contest_entries, top3,
                         pool_clients, accounts>>
     ELSE /\ CanConnect
          /\ IF contest_id \in 1..Len(contests)
             THEN /\ contests' = [contests EXCEPT ![contest_id].status = status]
                  /\ res' = Response("contests_status", req, 200,
                                     [contest_id |-> contest_id, status |-> status])
             ELSE /\ res' = Response("contests_status", req, 404, NoBody)
                  /\ UNCHANGED contests
          /\ UNCHANGED <<user_photos, target_photos, contest_entries, top3, pool_clients, accounts>>

\* ------------------------------------------------- POST /find_most_similar
TargetIds == 1..Len(target_photos)

\* one row of the answer: the columns of target_photos and `similarity`
SimilarRow(i, q) ==
  [target_photo_id |-> i,
   embedding_vector |-> PgVectorOut(target_photos[i].embedding_vector),
   similarity |-> OneMinus(CosineDistance(target_photos[i].embedding_vector, q))]

\* variant: ORDER BY ... DESC
OrderByDistanceLimit1_desc(q) ==
  IF TargetIds = {} THEN {<<>>}
  ELSE {<<SimilarRow(i, q)>> : i \in
          {i \in TargetIds :
             \A j \in TargetIds :
               PgFloatLE(CosineDistance(target_photos[j].embedding_vector, q),
                         CosineDistance(target_photos[i].embedding_vector, q))}}

\* SELECT *, 1 - (embedding_vector <=> $1) AS similarity FROM target_photos
\*   ORDER BY embedding_vector <=> $1 LIMIT 1
\* Every `rows` the store may answer: rows at the same distance come in any
\* order, so each row at the least distance can be the one returned.
OrderByDistanceLimit1(q) ==
  IF TargetIds = {} THEN {<<>>}
  ELSE {<<SimilarRow(i, q)>> : i \in
          {i \in TargetIds :
             \A j \in TargetIds :
               PgFloatLE(CosineDistance(target_photos[i].embedding_vector, q),
                         CosineDistance(target_photos[j].embedding_vector, q))}}

\* variant: rows[0] is sent whether or not there is one
FindMostSimilarReply_nocheck(embedding_vector, rows) ==
  Response("find_most_similar", embedding_vector, 200,
           IF Len(rows) = 0 THEN [target_photo_id |-> Undefined] ELSE rows[1])

\* if (rows.length === 0) 404, else res.json(rows[0])
FindMostSimilarReply(embedding_vector, rows) ==
  IF Len(rows) = 0
  THEN Response("find_most_similar", embedding_vector, 404, NoBody)
  ELSE Response("find_most_similar", embedding_vector, 200, rows[1])

\* embedding_vector is the body field, a JS value
find_most_similar(embedding_vector) ==
  IF embedding_vector.type # "array"
  THEN /\ res' = Response("find_most_similar", embedding_vector, 400, NoBody)
       /\ UNCHANGED <<user_photos, target_photos, contests, contest_entries, top3,
                      pool_clients, accounts>>
  ELSE LET q == PgVectorIn(VectorLiteral(embedding_vector.value))
       IN /\ CanConnect
          /\ IF \E i \in TargetIds :
                  CosineDistanceThrows(target_photos[i].embedding_vector, q)
             THEN \* the query rejects: the catch block answers, nobody releases
                  /\ Leaked < MaxLeaks
                  /\ pool_clients' = pool_clients + 1
                  /\ res' = Response("find_most_similar", embedding_vector, 500, NoBody)
             ELSE /\ UNCHANGED pool_clients
                  /\ \E rows \in OrderByDistanceLimit1(q) :
                       res' = FindMostSimilarReply(embedding_vector, rows)
          /\ UNCHANGED <<user_photos, target_photos, contests, contest_entries, top3, accounts>>

\* ------------------------------------------------- POST /friend_similarity
\* Math.round(((score + 1) / 2) * 100); Math.round rounds halves up
Percent(score) ==
  IF score = NaN THEN NaN
  ELSE ((score + Scale) * 100 + Scale) \div (2 * Scale)

\* SELECT embedding_vector FROM user_photos WHERE user_photo_id = $1
SelectPhotoById(user_photo_id) ==
  IF user_photo_id \in 1..Len(user_photos)
  THEN <<user_photos[user_photo_id]>> ELSE <<>>

\* the request carries a valid token; an id of 0 is a missing body field.
\* vecUser and vecFriend are the column values as the driver hands them
\* over; they are passed to similarity as they are.
FriendSimilarityReply(user_photo_id, friend_photo_id) ==
  LET req == [user_photo_id |-> user_photo_id, friend_photo_id |-> friend_photo_id]
      userQ == SelectPhotoById(user_photo_id)
      friendQ == SelectPhotoById(friend_photo_id)
      vecUser == PgVectorOut(userQ[1].embedding_vector)
      vecFriend == PgVectorOut(friendQ[1].embedding_vector)
  IN IF user_photo_id = 0 \/ friend_photo_id = 0
     THEN Response("friend_similarity", req, 400, NoBody)
     ELSE IF userQ = <<>> \/ friendQ = <<>>
     THEN Response("friend_similarity", req, 404, NoBody)
     ELSE IF similarityThrows(vecUser, vecFriend)
     THEN Response("friend_similarity", req, 500, NoBody)
     ELSE Response("friend_similarity", req, 200,
                   [user_photo_id |-> user_photo_id,
                    friend_photo_id |-> friend_photo_id,
                    cosine_similarity |-> similarity(vecUser, vecFriend),
                    similarity_percent |-> Percent(similarity(vecUser, vecFriend))])

friend_similarity(user_photo_id, friend_photo_id) ==
  /\ (user_photo_id # 0 /\ friend_photo_id # 0) => CanConnect
  /\ res' = FriendSimilarityReply(user_photo_id, friend_photo_id)
  /\ UNCHANGED <<user_photos, target_photos, contests, contest_entries, top3,
                 pool_clients, accounts>>

\* ------------------------------------------- POST /latest-photo-similarity
\* SELECT image_url, embedding_vector FROM user_photos WHERE user_id = $1
\*   ORDER BY uploaded_at DESC LIMIT 1       (result.rows, at most one row)
getPhoto(user_id) ==
  LET mine == {i \in 1..Len(user_photos) : user_photos[i].user_id = user_id}
  IN IF mine = {} THEN <<>>
     ELSE <<user_photos[CHOOSE i \in mine :
              \A j \in mine : user_photos[j].uploaded_at <= user_photos[i].uploaded_at]>>

\* an array stays, the text of a vector column is parsed, anything else is []
parseVector(vec) ==
  IF vec.type = "array" THEN vec
  ELSE IF vec.type = "string" THEN JSONparse(vec)
  ELSE JsArray(<<>>)

\* variant: arrays of different lengths are scored like a zero vector
LatestPhotoSimilarityReply_lengthsUnchecked(user_id1, user_id2) ==
  LET req == [user_id1 |-> user_id1, user_id2 |-> user_id2]
      photo1 == getPhoto(user_id1)
      photo2 == getPhoto(user_id2)
      vec1 == parseVector(PgVectorOut(photo1[1].embedding_vector))
      vec2 == parseVector(PgVectorOut(photo2[1].embedding_vector))
  IN IF user_id1 = 0 \/ user_id2 = 0
     THEN Response("latest_photo_similarity", req, 400, NoBody)
     ELSE IF photo1 = <<>> \/ photo2 = <<>>
     THEN Response("latest_photo_similarity", req, 404, NoBody)
     ELSE IF Len(vec1.value) # Len(vec2.value)
     THEN Response("latest_photo_similarity", req, 200, [cosine_similarity |-> NaN])
     ELSE Response("latest_photo_similarity", req, 200,
                   [cosine_similarity |-> similarity(vec1, vec2)])

LatestPhotoSimilarityReply(user_id1, user_id2) ==
  LET req == [user_id1 |-> user_id1, user_id2 |-> user_id2]
      photo1 == getPhoto(user_id1)
      photo2 == getPhoto(user_id2)
      vec1 == parseVector(PgVectorOut(photo1[1].embedding_vector))
      vec2 == parseVector(PgVectorOut(photo2[1].embedding_vector))
  IN IF user_id1 = 0 \/ user_id2 = 0
     THEN Response("latest_photo_similarity", req, 400, NoBody)
     ELSE IF photo1 = <<>> \/ photo2 = <<>>
     THEN Response("latest_photo_similarity", req, 404, NoBody)
     ELSE IF \/ vec1.type # "array"
             \/ vec2.type # "array"
             \/ Len(vec1.value) # Len(vec2.value)
     THEN Response("latest_photo_similarity", req, 400, NoBody)
     ELSE IF similarityThrows(vec1, vec2)
     THEN Response("latest_photo_similarity", req, 500, NoBody)
     ELSE Response("latest_photo_similarity", req, 200,
                   [cosine_similarity |-> similarity(vec1, vec2)])

latest_photo_similarity(user_id1, user_id2) ==
  /\ (user_id1 # 0 /\ user_id2 # 0) => CanConnect
  /\ res' = LatestPhotoSimilarityReply(user_id1, user_id2)
  /\ UNCHANGED <<user_photos, target_photos, contests, contest_entries, top3,
                 pool_clients, accounts>>

\* ------------------------------------------------------- GET /contest-top3
\* SELECT similarity_score, user_photo_id FROM contest_entries
\*   WHERE contest_id = $1 AND user_id = $2 ORDER BY similarity_score DESC LIMIT 1
\* Every answer of getEntryInfo; JS null is the empty sequence, an object is
\* a sequence of one record.
getEntryInfo(contest_id, user_id) ==
  LET S == {e \in EntriesOf(contest_id) : e.user_id = user_id}
  IN IF Falsy(user_id) \/ S = {} THEN {<<>>}
     ELSE {<<[user_id |-> user_id,
              similarity_score |-> e.similarity_score,
              user_photo_id |-> e.user_photo_id]>> :
             e \in {x \in S : \A y \in S :
                      PgFloatLE(y.similarity_score, x.similarity_score)}}

contest_top3(contest_id) ==
  LET req == [contest_id |-> contest_id]
  IN IF contest_id = 0
     THEN /\ res' = Response("contest_top3", req, 400, NoBody)
          /\ UNCHANGED <<user_photos, target_photos, contests, contest_entries, top3,
                         pool_clients, accounts>>
     ELSE /\ CanConnect
          /\ IF contest_id \notin 1..Len(contests)
             THEN res' = Response("contest_top3", req, 404, NoBody)
             ELSE \E first \in getEntryInfo(contest_id, contests[contest_id].first_user_id),
                     second \in getEntryInfo(contest_id, contests[contest_id].second_user_id),
                     third \in getEntryInfo(contest_id, contests[contest_id].third_user_id) :
                    res' = Response("contest_top3", req, 200,
                                    [first |-> first, second |-> second, third |-> third])
          /\ UNCHANGED <<user_photos, target_photos, contests, contest_entries, top3,
                         pool_clients, accounts>>

\* ---------------------------------------------------------------- accounts
\* The values of the account tables and of the requests on them are written
\* as text: "true" and "false" are the booleans, "null" is null (and SQL
\* NULL), "undefined" a field the request does not carry, "" the empty
\* string, "'false'" the string false; any other text is a string.  A user
\* id of 0 is a missing id.
FalsyText(v) == v \in {"", "false", "null", "undefined"}

\* the content tables and their handlers
contents == <<user_photos, target_photos, contests, contest_entries, top3>>

UserIds == 1..Len(users)

\* ----------------------------------------------------- POST /auth/register
\* a field of the body is missing
register_400(email, nickname, password) ==
  /\ FalsyText(email) \/ FalsyText(nickname) \/ FalsyText(password)
  /\ res' = Response("register", [email |-> email], 400, NoBody)
  /\ UNCHANGED <<contents, pool_clients, accounts>>

\* pool.connect() and SELECT 1 FROM users WHERE email = $1
register_check(h, email, nickname, password) ==
  /\ registering[h].pc = "idle"
  /\ ~(FalsyText(email) \/ FalsyText(nickname) \/ FalsyText(password))
  /\ CanConnect
  /\ IF \E i \in UserIds : users[i].email = email
     THEN /\ res' = Response("register", [email |-> email], 409, NoBody)
          /\ UNCHANGED <<registering, pool_clients>>
     ELSE /\ registering' = [registering EXCEPT ![h] =
                               [pc |-> "checked", email |-> email,
                                nickname |-> nickname, password |-> password]]
          /\ pool_clients' = pool_clients + 1
          /\ UNCHANGED res
  /\ UNCHANGED <<contents, users, friendships>>

\* the INSERT, the response and client.release().  The repository does not
\* define the users table: when the email has been stored since the check,
\* the INSERT either adds a second row (no constraint on email) or is
\* rejected by the store (a unique constraint) and the catch block answers.
register_insert(h) ==
  LET r == registering[h]
      row == [user_id |-> Len(users) + 1, kakao_id |-> "null", email |-> r.email,
              nickname |-> r.nickname, password |-> r.password,
              profile_image_url |-> "null", is_online |-> "true"]
  IN /\ r.pc = "checked"
     /\ \/ /\ Len(users) < MaxAccounts
           /\ users' = Append(users, row)
           /\ res' = Response("register", [email |-> r.email], 200,
                              [user_id |-> row.user_id, email |-> row.email,
                               nickname |-> row.nickname])
        \/ /\ \E i \in UserIds : users[i].email = r.email
           /\ res' = Response("register", [email |-> r.email], 500, NoBody)
           /\ UNCHANGED users
     /\ registering' = [registering EXCEPT ![h] =
                          [pc |-> "idle", email |-> "", nickname |-> "", password |-> ""]]
     /\ pool_clients' = pool_clients - 1
     /\ UNCHANGED <<contents, friendships>>

\* ------------------------------------- POST /auth/kakao/login (server-kakao.js)
\* findOrCreateUser: the table after the call and the record it returns
findOrCreateUser(kakaoId, nickname, profileImageUrl) ==
  LET rows == SelectSeq(users, LAMBDA u : u.kakao_id = kakaoId)
      row == [user_id |-> Len(users) + 1, kakao_id |-> kakaoId, email |-> "null",
              nickname |-> nickname, password |-> "null",
              profile_image_url |-> profileImageUrl, is_online |-> "true"]
  IN IF Len(rows) > 0
     THEN [users |-> [i \in UserIds |->
                       IF users[i].kakao_id = kakaoId
                       THEN [users[i] EXCEPT !.nickname = nickname,
                                             !.profile_image_url = profileImageUrl]
                       ELSE users[i]],
           user |-> rows[1]]
     ELSE [users |-> Append(users, row), user |-> row]

\* nickname and profileImageUrl are the values the provider answers for the
\* account kakaoId, after the defaults of the handler
auth_kakao_login(hasCode, kakaoId, nickname, profileImageUrl) ==
  LET req == [kakao_id |-> kakaoId, nickname |-> nickname,
              profile_image_url |-> profileImageUrl]
      found == findOrCreateUser(kakaoId, nickname, profileImageUrl)
  IN IF ~hasCode
     THEN /\ res' = Response("auth_kakao_login", req, 400, NoBody)
          /\ UNCHANGED <<contents, pool_clients, accounts>>
     ELSE /\ CanConnect
          /\ Len(found.users) <= MaxAccounts
          /\ users' = found.users
          /\ res' = Response("auth_kakao_login", req, 200,
                             [user |-> [user_id |-> found.user.user_id,
                                        kakao_id |-> found.user.kakao_id,
                                        nickname |-> found.user.nickname,
                                        profile_image_url |-> found.user.profile_image_url,
                                        is_online |-> found.user.is_online],
                              token |-> [id |-> found.user.user_id,
                                         kakaoId |-> found.user.kakao_id,
                                         nickname |-> found.user.nickname]])
          /\ UNCHANGED <<contents, pool_clients, friendships, registering>>

\* ------------------------------------------------------- PATCH /userupdate
\* variant: the three columns are set whether or not the request has them
UserUpdateSet_everyColumn(row, nickname, profile_image_url, is_online) ==
  [row EXCEPT !.nickname = IF nickname = "undefined" THEN "null" ELSE nickname,
              !.profile_image_url =
                 IF profile_image_url = "undefined" THEN "null" ELSE profile_image_url,
              !.is_online = IF is_online = "undefined" THEN "null" ELSE is_online]

\* the SET list built from the fields that are not undefined
UserUpdateSet(row, nickname, profile_image_url, is_online) ==
  [row EXCEPT !.nickname = IF nickname = "undefined" THEN @ ELSE nickname,
              !.profile_image_url =
                 IF profile_image_url = "undefined" THEN @ ELSE profile_image_url,
              !.is_online = IF is_online = "undefined" THEN @ ELSE is_online]

userupdate(userid, nickname, profile_image_url, is_online) ==
  LET req == [userid |-> userid, nickname |-> nickname,
              profile_image_url |-> profile_image_url, is_online |-> is_online]
  IN IF \/ userid = 0
        \/ /\ nickname = "undefined"
           /\ profile_image_url = "undefined"
           /\ is_online = "undefined"
     THEN /\ res' = Response("userupdate", req, 400, NoBody)
          /\ UNCHANGED <<contents, pool_clients, accounts>>
     ELSE /\ CanConnect
          /\ IF userid \in UserIds
             THEN /\ users' = [users EXCEPT ![userid] =
                                 UserUpdateSet(@, nickname, profile_image_url, is_online)]
                  /\ res' = Response("userupdate", req, 200,
                                     UserUpdateSet(users[userid], nickname,
                                                   profile_image_url, is_online))
             ELSE /\ res' = Response("userupdate", req, 404, NoBody)
                  /\ UNCHANGED users
          /\ UNCHANGED <<contents, pool_clients, friendships, registering>>

\* ---------------------------------------------------- PATCH /update_isonline
\* the text -> boolean input conversion of the store
PgBoolean(v) == IF v = "'false'" THEN "false" ELSE v

\* the body of the 200 response is result.rows[0]: a sequence of one row, or
\* the empty sequence for undefined
update_isonline(is_online, user_id) ==
  LET req == [is_online |-> is_online, user_id |-> user_id]
  IN IF FalsyText(is_online)
     THEN /\ res' = Response("update_isonline", req, 400, NoBody)
          /\ UNCHANGED <<contents, pool_clients, accounts>>
     ELSE /\ CanConnect
          /\ IF user_id \in UserIds
             THEN /\ users' = [users EXCEPT ![user_id].is_online = PgBoolean(is_online)]
                  /\ res' = Response("update_isonline", req, 200,
                                     <<[users[user_id] EXCEPT
                                          !.is_online = PgBoolean(is_online)]>>)
             ELSE /\ res' = Response("update_isonline", req, 200, <<>>)
                  /\ UNCHANGED users
          /\ UNCHANGED <<contents, pool_clients, friendships, registering>>

\* ------------------------------------------------------------- friendships
\* A deleted row stays in the sequence, marked deleted, so that the ids of
\* the rows after it are not given out again.
FriendshipIds == {i \in 1..Len(friendships) : ~friendships[i].deleted}

\* POST /friendship_add.  The repository does not define the friendships
\* table, so its constraints are not known: the INSERT either adds the row
\* or is rejected by the store and the catch block answers 500.
friendship_add(requester_user_id, receiver_user_id, status) ==
  LET req == [requester_user_id |-> requester_user_id,
              receiver_user_id |-> receiver_user_id, status |-> status]
      row == [friendships_id |-> Len(friendships) + 1,
              requester_user_id |-> requester_user_id,
              receiver_user_id |-> receiver_user_id,
              status |-> status, deleted |-> FALSE]
  IN IF requester_user_id = 0 \/ receiver_user_id = 0 \/ FalsyText(status)
     THEN /\ res' = Response("friendship_add", req, 400, NoBody)
          /\ UNCHANGED <<contents, pool_clients, accounts>>
     ELSE /\ CanConnect
          /\ \/ /\ Len(friendships) < MaxFriendships
                /\ friendships' = Append(friendships, row)
                /\ res' = Response("friendship_add", req, 200, row)
             \/ /\ res' = Response("friendship_add", req, 500, NoBody)
                /\ UNCHANGED friendships
          /\ UNCHANGED <<contents, pool_clients, users, registering>>

\* PATCH /friendship/:friendship_id, with a valid token
friendship_patch(friendship_id, status) ==
  LET req == [friendship_id |-> friendship_id, status |-> status]
  IN IF status \notin {"accepted", "rejected"}
     THEN /\ res' = Response("friendship_patch", req, 400, NoBody)
          /\ UNCHANGED <<contents, pool_clients, accounts>>
     ELSE /\ CanConnect
          /\ IF friendship_id \in FriendshipIds
             THEN /\ friendships' = [friendships EXCEPT ![friendship_id].status = status]
                  /\ res' = Response("friendship_patch", req, 200,
                                     [friendships[friendship_id] EXCEPT !.status = status])
             ELSE /\ res' = Response("friendship_patch", req, 404, NoBody)
                  /\ UNCHANGED friendships
          /\ UNCHANGED <<contents, pool_clients, users, registering>>

\* DELETE /friendship_delete: every row from requester to receiver; the
\* body of the response is result.rows[0], undefined when no row matched
friendship_delete(requester_user_id, receiver_user_id, status) ==
  LET req == [requester_user_id |-> requester_user_id,
              receiver_user_id |-> receiver_user_id, status |-> status]
      hit == {i \in FriendshipIds :
                /\ friendships[i].requester_user_id = requester_user_id
                /\ friendships[i].receiver_user_id = receiver_user_id}
  IN IF requester_user_id = 0 \/ receiver_user_id = 0 \/ FalsyText(status)
     THEN /\ res' = Response("friendship_delete", req, 400, NoBody)
          /\ UNCHANGED <<contents, pool_clients, accounts>>
     ELSE /\ CanConnect
          /\ friendships' = [i \in 1..Len(friendships) |->
                               IF i \in hit THEN [friendships[i] EXCEPT !.deleted = TRUE]
                               ELSE friendships[i]]
          /\ res' = Response("friendship_delete", req, 200,
                             IF hit = {} THEN Undefined
                             ELSE friendships[CHOOSE i \in hit : \A j \in hit : i <= j])
          /\ UNCHANGED <<contents, pool_clients, users, registering>>

\* the user on the other side of a friendships row
FriendOf(f, me) ==
  IF f.requester_user_id = me THEN f.receiver_user_id ELSE f.requester_user_id

\* variant: only the requests the user made
FriendsRows_outgoingOnly(me) ==
  LET n == Len(friendships)
      newestFirst == [i \in 1..n |-> friendships[n + 1 - i]]
      mine == SelectSeq(newestFirst, LAMBDA f :
                /\ ~f.deleted
                /\ f.status = "accepted"
                /\ f.requester_user_id = me
                /\ FriendOf(f, me) \in UserIds)
  IN [i \in 1..Len(mine) |->
        [friendshipId |-> mine[i].friendships_id,
         status |-> mine[i].status,
         direction |-> "outgoing",
         user |-> [userId |-> FriendOf(mine[i], me),
                   nickname |-> users[FriendOf(mine[i], me)].nickname,
                   profileImageUrl |-> users[FriendOf(mine[i], me)].profile_image_url]]]

\* SELECT ... FROM friendships f JOIN users u ON (the other side)
\*   WHERE (f.requester_user_id = $1 OR f.receiver_user_id = $1)
\*     AND f.status = 'accepted' ORDER BY f.requested_at DESC
\* mapped to the friends of the response
FriendsRows(me) ==
  LET n == Len(friendships)
      newestFirst == [i \in 1..n |-> friendships[n + 1 - i]]
      mine == SelectSeq(newestFirst, LAMBDA f :
                /\ ~f.deleted
                /\ f.status = "accepted"
                /\ f.requester_user_id = me \/ f.receiver_user_id = me
                /\ FriendOf(f, me) \in UserIds)
  IN [i \in 1..Len(mine) |->
        [friendshipId |-> mine[i].friendships_id,
         status |-> mine[i].status,
         direction |-> IF mine[i].requester_user_id = me THEN "outgoing" ELSE "incoming",
         user |-> [userId |-> FriendOf(mine[i], me),
                   nickname |-> users[FriendOf(mine[i], me)].nickname,
                   profileImageUrl |-> users[FriendOf(mine[i], me)].profile_image_url]]]

\* GET /friends; me is the id in the token
friends(me) ==
  /\ CanConnect
  /\ res' = Response("friends", [me |-> me], 200, FriendsRows(me))
  /\ UNCHANGED <<contents, pool_clients, accounts>>

\* --------------------------------------------------------- specifications
\* request inputs
FlaskAnswers ==
  {FlaskArray(v) : v \in AllArrays} \cup {FlaskNoArray, FlaskError}
StatusValues == {"created", "active", "closed", "finished"}
ContestIdInputs == 0..(MaxContests + 1)
UserIdInputs == 0..MaxUsers
PhotoIdInputs == 0..MaxUserPhotos
QueryInputs ==
  {JsArray(v) : v \in GoodArrays \cup {Vec(1, 0, EmbeddingDim - 1)}}
    \cup {[type |-> "undefined", value |-> <<>>]}

RegisterEmails == {"a@x", "b@x"}
AccountIdInputs == 0..(MaxAccounts + 1)

\* every handler, every input
Next ==
  \/ \E u \in Users, f \in FlaskAnswers : uploaduser(u, f)
  \/ \E m \in BOOLEAN, f \in FlaskAnswers : uploadtarget(m, f)
  \/ \E hf, hp \in BOOLEAN, st \in StatusValues \cup {""}, f \in FlaskAnswers :
       contestsadd(hf, hp, st, f)
  \/ \E c \in ContestIdInputs, u \in UserIdInputs, p \in PhotoIdInputs :
       contest_entry_add(c, u, p)
  \/ update_contest_top3_400
  \/ \E h \in Handlers, c \in ContestIdInputs : update_contest_top3_select(h, c)
  \/ \E h \in Handlers : update_contest_top3_update(h)
  \/ \E c \in ContestIdInputs, st \in StatusValues \cup {""} : contests_status(c, st)
  \/ \E q \in QueryInputs : find_most_similar(q)
  \/ \E p, f \in PhotoIdInputs : friend_similarity(p, f)
  \/ \E u1, u2 \in UserIdInputs : latest_photo_similarity(u1, u2)
  \/ \E c \in ContestIdInputs : contest_top3(c)
  \/ \E e \in RegisterEmails \cup {"undefined"}, n \in {"ann", ""} : register_400(e, n, "pw")
  \/ \E h \in Handlers, e \in RegisterEmails, n \in {"ann", "bob"} :
       register_check(h, e, n, "pw")
  \/ \E h \in Handlers : register_insert(h)
  \/ \E c \in BOOLEAN, k \in {"k1", "k2"}, n \in {"ann", "bob"}, p \in {"null", "p.png"} :
       auth_kakao_login(c, k, n, p)
  \/ \E u \in AccountIdInputs, n \in {"undefined", "cat"}, p \in {"undefined", "q.png"},
        o \in {"undefined", "true", "false"} :
       userupdate(u, n, p, o)
  \/ \E o \in {"undefined", "true", "false", "'false'"}, u \in AccountIdInputs :
       update_isonline(o, u)
  \/ \E a, b \in 0..MaxAccounts, st \in {"", "pending", "accepted"} : friendship_add(a, b, st)
  \/ \E f \in 1..(MaxFriendships + 1), st \in {"accepted", "rejected", "pending"} :
       friendship_patch(f, st)
  \/ \E a, b \in 0..MaxAccounts : friendship_delete(a, b, "accepted")
  \/ \E a \in 1..MaxAccounts : friends(a)

Spec == Init /\ [][Next]_vars

\* Ranking: photos, one kind of contest, entries and the two-step ranking.
RankArrays == {Vec(1, 0, EmbeddingDim), Vec(0, 1, EmbeddingDim)}

NextRank ==
  \/ \E u \in Users, v \in RankArrays : uploaduser(u, FlaskArray(v))
  \/ /\ Len(contests) < RankContests
     /\ contestsadd(TRUE, TRUE, "active", FlaskArray(Vec(1, 0, EmbeddingDim)))
  \/ \E c \in 1..RankContests, u \in Users, p \in 1..MaxUserPhotos :
       contest_entry_add(c, u, p)
  \/ \E c \in 1..RankContests : update_contest_top3_select(1, c)
  \/ update_contest_top3_update(1)
  \/ \E c \in 1..RankContests : contests_status(c, "closed")

SpecRank == Init /\ [][NextRank]_vars

\* Concurrent ranking: every handler instance, one embedding per user.
NextRace ==
  \/ \E u \in Users : uploaduser(u, FlaskArray(Vec(1, u - 1, EmbeddingDim)))
  \/ /\ Len(contests) < RankContests
     /\ contestsadd(TRUE, TRUE, "active", FlaskArray(Vec(1, 0, EmbeddingDim)))
  \/ \E c \in 1..RankContests, u \in Users, p \in 1..MaxUserPhotos :
       contest_entry_add(c, u, p)
  \/ \E h \in Handlers, c \in 1..RankContests : update_contest_top3_select(h, c)
  \/ \E h \in Handlers : update_contest_top3_update(h)

SpecRace == Init /\ [][NextRace]_vars

\* Uploads: the three handlers that call the embedding service.
UploadAnswers ==
  {FlaskArray(v) : v \in {Vec(1, 0, EmbeddingDim), Vec(0, 1, EmbeddingDim)} \cup BadArrays}
    \cup {FlaskNoArray, FlaskError}

NextUpload ==
  \/ \E u \in Users, f \in UploadAnswers : uploaduser(u, f)
  \/ \E m \in BOOLEAN, f \in UploadAnswers : uploadtarget(m, f)
  \/ \E hf, hp \in BOOLEAN, st \in {"active", ""}, f \in UploadAnswers :
       contestsadd(hf, hp, st, f)

SpecUpload == Init /\ [][NextUpload]_vars

\* Nearest neighbour: target uploads and queries.
NextNearest ==
  \/ \E v \in GoodArrays : uploadtarget(TRUE, FlaskArray(v))
  \/ \E q \in QueryInputs : find_most_similar(q)

SpecNearest == Init /\ [][NextNearest]_vars

\* Status: contests and their status updates, with entries and ranking.
NextStatus ==
  \/ /\ Len(contests) < RankContests
     /\ \E st \in StatusValues \cup {""} :
          contestsadd(TRUE, TRUE, st, FlaskArray(Vec(1, 0, EmbeddingDim)))
  \/ \E c \in ContestIdInputs, st \in StatusValues \cup {""} : contests_status(c, st)
  \/ uploaduser(1, FlaskArray(Vec(1, 0, EmbeddingDim)))
  \/ \E c \in 1..RankContests, p \in 1..MaxUserPhotos : contest_entry_add(c, 1, p)
  \/ \E c \in 1..RankContests : update_contest_top3_select(1, c)
  \/ update_contest_top3_update(1)

SpecStatus == Init /\ [][NextStatus]_vars

\* Comparison: the three operations that compute a similarity.  The tables
\* live in the database and outlive the server; the repository creates none
\* of them (postgres-init/init.sql only enables the extension) and puts no
\* dimension on the vector columns, so a photo stored before the server
\* started may have an embedding of another length.
StoredBefore ==
  {<<>>,
   <<[user_id |-> 1, embedding_vector |-> Vec(1, 0, EmbeddingDim - 1), uploaded_at |-> 1]>>}

InitCompare ==
  /\ user_photos \in StoredBefore
  /\ target_photos = <<>>
  /\ contests = <<>>
  /\ contest_entries = <<>>
  /\ top3 = [h \in Handlers |-> [pc |-> "idle", contest_id |-> 0, rows |-> <<>>]]
  /\ pool_clients = 0
  /\ res = Response("none", NoBody, 0, NoBody)
  /\ users = <<>>
  /\ friendships = <<>>
  /\ registering = [h \in Handlers |-> [pc |-> "idle", email |-> "", nickname |-> "",
                                         password |-> ""]]

CompareArrays ==
  {Vec(1, 0, EmbeddingDim), Vec(1, 1, EmbeddingDim), Vec(0, 0, EmbeddingDim)}

NextCompare ==
  \/ \E u \in Users, v \in CompareArrays : uploaduser(u, FlaskArray(v))
  \/ /\ Len(contests) < RankContests
     /\ contestsadd(TRUE, TRUE, "active", FlaskArray(Vec(1, 0, EmbeddingDim)))
  \/ \E c \in 1..RankContests, u \in Users, p \in 1..MaxUserPhotos :
       contest_entry_add(c, u, p)
  \/ \E p, f \in PhotoIdInputs : friend_similarity(p, f)
  \/ \E u1, u2 \in UserIdInputs : latest_photo_similarity(u1, u2)

SpecCompare == InitCompare /\ [][NextCompare]_vars

\* Lookups: every operation that takes the id of a contest or of a photo,
\* with ids that exist and ids that do not.
NextLookup ==
  \/ uploaduser(1, FlaskArray(Vec(1, 0, EmbeddingDim)))
  \/ /\ Len(contests) < RankContests
     /\ contestsadd(TRUE, TRUE, "active", FlaskArray(Vec(1, 0, EmbeddingDim)))
  \/ \E c \in ContestIdInputs, p \in PhotoIdInputs \cup {MaxUserPhotos + 1} :
       contest_entry_add(c, 1, p)
  \/ \E c \in ContestIdInputs \ {0} : update_contest_top3_select(1, c)
  \/ update_contest_top3_update(1)
  \/ \E c \in ContestIdInputs : contest_top3(c)
  \/ \E p, f \in PhotoIdInputs \cup {MaxUserPhotos + 1} : friend_similarity(p, f)
  \/ \E c \in ContestIdInputs : contests_status(c, "closed")

SpecLookup == Init /\ [][NextLookup]_vars

\* Frame: every handler of the model, on two contests and one user.
NextFrame ==
  \/ uploaduser(1, FlaskArray(Vec(1, 0, EmbeddingDim)))
  \/ uploadtarget(TRUE, FlaskArray(Vec(1, 0, EmbeddingDim)))
  \/ contestsadd(TRUE, TRUE, "active", FlaskArray(Vec(1, 0, EmbeddingDim)))
  \/ /\ Len(contest_entries) < FrameEntries
     /\ \E c \in 1..MaxContests : contest_entry_add(c, 1, 1)
  \/ \E c \in 1..MaxContests : update_contest_top3_select(1, c)
  \/ update_contest_top3_update(1)
  \/ \E c \in 1..MaxContests : contests_status(c, "closed")
  \/ find_most_similar(JsArray(Vec(1, 0, EmbeddingDim)))
  \/ friend_similarity(1, 1)
  \/ latest_photo_similarity(1, 1)
  \/ \E c \in 1..MaxContests : contest_top3(c)

SpecFrame == Init /\ [][NextFrame]_vars

\* Registration: every handler instance, two emails.
NextRegister ==
  \/ \E e \in RegisterEmails \cup {"undefined"}, n \in {"ann", ""} :
       register_400(e, n, "pw")
  \/ \E h \in Handlers, e \in RegisterEmails, n \in {"ann", "bob"} :
       register_check(h, e, n, "pw")
  \/ \E h \in Handlers : register_insert(h)

SpecRegister == Init /\ [][NextRegister]_vars

\* Accounts: logins that create and refresh users, and the two updates.
NextAccount ==
  \/ \E c \in BOOLEAN, k \in {"k1", "k2"}, n \in {"ann", "bob"}, p \in {"null", "p.png"} :
       auth_kakao_login(c, k, n, p)
  \/ \E u \in AccountIdInputs, n \in {"undefined", "cat"}, p \in {"undefined", "q.png"},
        o \in {"undefined", "true", "false"} :
       userupdate(u, n, p, o)
  \/ \E o \in {"undefined", "true", "false", "'false'"}, u \in AccountIdInputs :
       update_isonline(o, u)

SpecAccount == Init /\ [][NextAccount]_vars

\* Friends: two users, friendship requests, answers, deletions and lists.
NextFriends ==
  \/ \E k \in {"k1", "k2"} : auth_kakao_login(TRUE, k, "ann", "null")
  \/ \E a, b \in 0..MaxAccounts, st \in {"", "pending", "accepted"} :
       friendship_add(a, b, st)
  \/ \E f \in 1..(MaxFriendships + 1), st \in {"accepted", "rejected", "pending"} :
       friendship_patch(f, st)
  \/ \E a, b \in 0..MaxAccounts : friendship_delete(a, b, "accepted")
  \/ \E a \in 1..MaxAccounts : friends(a)

SpecFriends == Init /\ [][NextFriends]_vars

\* Winners read back: photos with two different scores, entries, the ranking
\* and GET /contest-top3.
Top3Arrays == {Vec(1, 0, EmbeddingDim), Vec(1, 1, EmbeddingDim)}

NextTop3 ==
  \/ \E u \in Users, v \in Top3Arrays : uploaduser(u, FlaskArray(v))
  \/ /\ Len(contests) < RankContests
     /\ contestsadd(TRUE, TRUE, "active", FlaskArray(Vec(1, 0, EmbeddingDim)))
  \/ \E c \in 1..RankContests, u \in Users, p \in 1..MaxUserPhotos :
       contest_entry_add(c, u, p)
  \/ \E c \in 1..RankContests : update_contest_top3_select(1, c)
  \/ update_contest_top3_update(1)
  \/ \E c \in 1..RankContests : contest_top3(c)

SpecTop3 == Init /\ [][NextTop3]_vars

\* ================================================================ ranking
\* steps of a PATCH /update_contest_top3 handler
SelectStep(h) == top3[h].pc = "idle" /\ top3'[h].pc = "read"
UpdateStep(h) == top3[h].pc = "read" /\ top3'[h].pc = "idle"

\* a comes before b: higher score, or the same score and submitted earlier
RankedBefore(a, b) ==
  \/ PgFloatLT(b.similarity_score, a.similarity_score)
  \/ /\ a.similarity_score = b.similarity_score
     /\ a.submitted_at < b.submitted_at

\* the top three by score, ties by earlier submitted_at
RankEntries(contest_id) ==
  LET S == EntriesOf(contest_id)
      n == IF Cardinality(S) < 3 THEN Cardinality(S) ELSE 3
  IN CHOOSE rows \in [1..n -> S] :
       /\ \A i, j \in 1..n : i < j => RankedBefore(rows[i], rows[j])
       /\ \A e \in S \ Range(rows) : RankedBefore(rows[n], e)

SlotPhoto(body, k) ==
  IF k = 1 THEN body.first_photo_id
  ELSE IF k = 2 THEN body.second_photo_id ELSE body.third_photo_id

SlotScore(body, k) ==
  IF k = 1 THEN body.first_score
  ELSE IF k = 2 THEN body.second_score ELSE body.third_score

SlotUser(contest, k) ==
  IF k = 1 THEN contest.first_user_id
  ELSE IF k = 2 THEN contest.second_user_id ELSE contest.third_user_id

\* C1: the rows a PATCH /update_contest_top3 call selects are the three
\* entries of the contest with the highest similarity_score, in descending
\* order, and of two entries with the same score the one submitted earlier
\* comes first.
C1_SelectsTopThreeTiesByTime ==
  [][\A h \in Handlers :
       SelectStep(h) => top3'[h].rows = RankEntries(top3'[h].contest_id)]_vars

\* C2: when the contest had n < 3 entries, the response carries entry k
\* (its photo id and its score) in slot k for k <= n, null in every field
\* of the slots after n, and null is written to the columns of those slots.
C2_FewerThanThreeEntries ==
  [][\A h \in Handlers :
       (UpdateStep(h) /\ Len(top3[h].rows) < 3) =>
         \A k \in 1..3 :
           IF k <= Len(top3[h].rows)
           THEN /\ SlotPhoto(res'.body, k) = top3[h].rows[k].user_photo_id
                /\ SlotScore(res'.body, k) = top3[h].rows[k].similarity_score
           ELSE /\ SlotPhoto(res'.body, k) = Null
                /\ SlotScore(res'.body, k) = Null
                /\ top3[h].contest_id \in 1..Len(contests) =>
                     SlotUser(contests'[top3[h].contest_id], k) = Null]_vars

\* the user a photo belongs to; null for the null photo id
OwnerOf(user_photo_id) ==
  IF user_photo_id = Null THEN Null ELSE user_photos[user_photo_id].user_id

\* C3: after a completed PATCH /update_contest_top3 on an existing contest,
\* the contest's first/second/third_user_id are the users of the first,
\* second and third photo the call returned, null where it returned null.
C3_StoredWinnersAreReturnedOnes ==
  (/\ res.op = "update_contest_top3"
   /\ res.status = 200
   /\ res.req.contest_id \in 1..Len(contests)) =>
     \A k \in 1..3 :
       SlotUser(contests[res.req.contest_id], k) = OwnerOf(SlotPhoto(res.body, k))

C3_Witness ==
  /\ res.op = "update_contest_top3"
  /\ res.status = 200
  /\ res.req.contest_id \in 1..Len(contests)
  /\ \A h \in Handlers : top3[h].pc = "idle"
  /\ contests[res.req.contest_id].first_user_id \in Users
  /\ contests[res.req.contest_id].second_user_id \in Users
  /\ contests[res.req.contest_id].first_user_id #
       contests[res.req.contest_id].second_user_id
  /\ contests[res.req.contest_id].third_user_id = Null

\* C4: the UPDATE of a PATCH /update_contest_top3 call writes the users of
\* the rows its own SELECT read, whatever was added to contest_entries in
\* between; so the last writer's reading is what stays stored.
C4_WritesWhatItRead ==
  [][\A h \in Handlers :
       (UpdateStep(h) /\ top3[h].contest_id \in 1..Len(contests)) =>
         \A k \in 1..3 :
           SlotUser(contests'[top3[h].contest_id], k) =
             IF k <= Len(top3[h].rows) THEN top3[h].rows[k].user_id ELSE Null]_vars

\* every handler has completed, the last one a ranking, and the stored
\* winners are no top three of the entries now stored
C4_Witness ==
  /\ \A h \in Handlers : top3[h].pc = "idle"
  /\ res.op = "update_contest_top3"
  /\ res.status = 200
  /\ res.req.contest_id \in 1..Len(contests)
  /\ \A rows \in OrderByScoreDescLimit3(res.req.contest_id) :
       \E k \in 1..3 :
         SlotUser(contests[res.req.contest_id], k) #
           (IF k <= Len(rows) THEN rows[k].user_id ELSE Null)

\* C5: the similarity_score of every contest entry is the cosine similarity
\* of the target embedding of its contest and the embedding of its photo,
\* as they are stored now.
C5_ScoreIsCosineOfSources ==
  \A i \in 1..Len(contest_entries) :
    LET e == contest_entries[i]
    IN /\ e.contest_id \in 1..Len(contests)
       /\ e.user_photo_id \in 1..Len(user_photos)
       /\ LET vec1 == JSONparse(PgVectorOut(contests[e.contest_id].target_embedding))
              vec2 == JSONparse(PgVectorOut(user_photos[e.user_photo_id].embedding_vector))
          IN /\ ~similarityThrows(vec1, vec2)
             /\ e.similarity_score = similarity(vec1, vec2)

C5_Witness ==
  \E i, j \in 1..Len(contest_entries) :
    /\ contest_entries[i].similarity_score = Scale
    /\ contest_entries[j].similarity_score = 0
    /\ contests[contest_entries[i].contest_id].status = "closed"

\* ================================================================ uploads
UploadOps == {"uploaduser", "uploadtarget", "contestsadd"}

Inserted ==
  \/ Len(user_photos') > Len(user_photos)
  \/ Len(target_photos') > Len(target_photos)
  \/ Len(contests') > Len(contests)

StoredEmbeddings ==
  {user_photos[i].embedding_vector : i \in 1..Len(user_photos)}
    \cup {target_photos[i].embedding_vector : i \in 1..Len(target_photos)}
    \cup {contests[i].target_embedding : i \in 1..Len(contests)}

Distance(i, q) == CosineDistance(target_photos[i].embedding_vector, q)

\* C7: for a query embedding and a non-empty target_photos, the answer of
\* find_most_similar is a stored target photo at a cosine distance from the
\* query that no stored target photo undercuts, with similarity = 1 -
\* distance; when the photo stored last is closer than all the others, it
\* is the answer.
C7_ReturnsNearestTarget ==
  (/\ res.op = "find_most_similar"
   /\ res.req.type = "array"
   /\ Len(res.req.value) = 512
   /\ TargetIds # {}) =>
     /\ res.status = 200
     /\ res.body.target_photo_id \in TargetIds
     /\ \A j \in TargetIds :
          PgFloatLE(Distance(res.body.target_photo_id, res.req.value),
                    Distance(j, res.req.value))
     /\ res.body.similarity =
          OneMinus(Distance(res.body.target_photo_id, res.req.value))
     /\ (\A j \in TargetIds \ {Len(target_photos)} :
           PgFloatLT(Distance(Len(target_photos), res.req.value),
                     Distance(j, res.req.value)))
          => res.body.target_photo_id = Len(target_photos)

C7_Witness ==
  /\ res.op = "find_most_similar"
  /\ res.status = 200
  /\ Len(target_photos) >= 2
  /\ res.body.target_photo_id = Len(target_photos)
  /\ res.body.similarity = Scale
  /\ \A j \in TargetIds \ {Len(target_photos)} :
       /\ Distance(j, res.req.value) # NaN
       /\ Distance(Len(target_photos), res.req.value) < Distance(j, res.req.value)

\* C8: a find_most_similar request that carries an array, made while
\* target_photos is empty, is answered 404 with no entity.
C8_EmptyCollectionIs404 ==
  (/\ res.op = "find_most_similar"
   /\ res.req.type = "array"
   /\ TargetIds = {}) =>
     /\ res.status = 404
     /\ res.body = NoBody

C8_Witness ==
  /\ res.op = "find_most_similar"
  /\ res.status = 404
  /\ TargetIds = {}

\* C9: of the stored target photos at the least cosine distance from the
\* query (a number), find_most_similar answers the one inserted first.
C9_TieGoesToFirstInserted ==
  (/\ res.op = "find_most_similar"
   /\ res.status = 200
   /\ Distance(res.body.target_photo_id, res.req.value) # NaN) =>
    \A j \in TargetIds :
      Distance(j, res.req.value) =
          Distance(res.body.target_photo_id, res.req.value)
        => res.body.target_photo_id <= j

\* ================================================================= status
StatusMove(a, b) ==
  \/ a = b
  \/ a = "created" /\ b = "active"
  \/ a = "active" /\ b = "closed"

\* C10: a contest's status is one of created, active, closed, and changes
\* only from created to active and from active to closed.
C10_StatusFollowsLifecycle ==
  [][\A c \in 1..Len(contests') :
       IF c <= Len(contests)
       THEN StatusMove(contests[c].status, contests'[c].status)
       ELSE contests'[c].status \in {"created", "active", "closed"}]_vars

\* ===================================================== status independence
\* C11: whatever the status of the contest, closed included, a
\* contest_entry_add request that names an existing contest and a photo of
\* the user appends an entry to that contest, and the UPDATE of a
\* PATCH /update_contest_top3 call writes the users of the rows it read to
\* the three winner columns.
C11_EntriesAndRankingInAnyStatus ==
  [][/\ (/\ res' # res
          /\ res'.op = "contest_entry_add"
          /\ res'.req.contest_id \in 1..Len(contests)
          /\ SelectUserPhoto(res'.req.user_id, res'.req.user_photo_id) # <<>>) =>
            /\ res'.status = 200
            /\ res'.body.contest_id = res'.req.contest_id
            /\ contest_entries' = Append(contest_entries, res'.body)
     /\ \A h \in Handlers :
          (UpdateStep(h) /\ top3[h].contest_id \in 1..Len(contests)) =>
            /\ res'.status = 200
            /\ \A k \in 1..3 :
                 SlotUser(contests'[top3[h].contest_id], k) =
                   IF k <= Len(top3[h].rows) THEN top3[h].rows[k].user_id ELSE Null]_vars

\* the ranking of a closed contest was the request completed last, and it
\* left winners
C11_Witness ==
  /\ res.op = "update_contest_top3"
  /\ res.status = 200
  /\ res.req.contest_id \in 1..Len(contests)
  /\ contests[res.req.contest_id].status = "closed"
  /\ contests[res.req.contest_id].first_user_id # Null
  /\ \E e \in EntriesOf(res.req.contest_id) :
       e.user_id = contests[res.req.contest_id].first_user_id

\* ============================================================= comparison
StoreUnchanged == UNCHANGED <<user_photos, target_photos, contests, contest_entries>>

\* the two embeddings a request compares, <<>> when one of them is missing
ComparedBy(r) ==
  IF r.op = "contest_entry_add"
  THEN IF /\ r.req.contest_id \in 1..Len(contests)
          /\ SelectUserPhoto(r.req.user_id, r.req.user_photo_id) # <<>>
       THEN <<contests[r.req.contest_id].target_embedding,
              user_photos[r.req.user_photo_id].embedding_vector>>
       ELSE <<>>
  ELSE IF r.op = "friend_similarity"
  THEN IF /\ r.req.user_photo_id \in 1..Len(user_photos)
          /\ r.req.friend_photo_id \in 1..Len(user_photos)
       THEN <<user_photos[r.req.user_photo_id].embedding_vector,
              user_photos[r.req.friend_photo_id].embedding_vector>>
       ELSE <<>>
  ELSE IF r.op = "latest_photo_similarity"
  THEN IF getPhoto(r.req.user_id1) # <<>> /\ getPhoto(r.req.user_id2) # <<>>
       THEN <<getPhoto(r.req.user_id1)[1].embedding_vector,
              getPhoto(r.req.user_id2)[1].embedding_vector>>
       ELSE <<>>
  ELSE <<>>

ZeroMagnitude(v) == \A i \in 1..Len(v) : v[i] = 0

\* C12: a contest_entry_add, friend_similarity or latest-photo-similarity
\* request whose two embeddings have different lengths is answered with an
\* error status and changes no table.
C12_DifferentLengthsFail ==
  [][(/\ res' # res
      /\ ComparedBy(res') # <<>>
      /\ Len(ComparedBy(res')[1]) # Len(ComparedBy(res')[2])) =>
        /\ res'.status >= 400
        /\ StoreUnchanged]_vars

C12_Witness ==
  /\ res.op = "latest_photo_similarity"
  /\ res.status = 400
  /\ ComparedBy(res) # <<>>
  /\ Len(ComparedBy(res)[1]) = 511
  /\ Len(ComparedBy(res)[2]) = 512
  /\ Len(contests) > 0

\* C13: a similarity request one of whose embeddings has zero magnitude is
\* answered with an error status, and no contest entry holds a score
\* computed from such an embedding.
C13_ZeroMagnitudeFails ==
  /\ (/\ ComparedBy(res) # <<>>
      /\ Len(ComparedBy(res)[1]) = Len(ComparedBy(res)[2])
      /\ ZeroMagnitude(ComparedBy(res)[1]) \/ ZeroMagnitude(ComparedBy(res)[2])) =>
        res.status >= 400
  /\ \A i \in 1..Len(contest_entries) :
       /\ ~ZeroMagnitude(contests[contest_entries[i].contest_id].target_embedding)
       /\ ~ZeroMagnitude(user_photos[contest_entries[i].user_photo_id].embedding_vector)

\* C14: a friend_similarity request on two stored photos whose cosine is a
\* number s is answered with s itself and with the percentage
\* round((s + 1) / 2 * 100), which lies in 0..100, is 100 for s = 1 and 0
\* for s = -1.
C14_PercentOfScore ==
  (/\ res.op = "friend_similarity"
   /\ ComparedBy(res) # <<>>
   /\ Len(ComparedBy(res)[1]) = Len(ComparedBy(res)[2])
   /\ CosineTable[ComparedBy(res)] # NaN) =>
     LET s == CosineTable[ComparedBy(res)]
     IN /\ res.status = 200
        /\ res.body.cosine_similarity = s
        /\ res.body.similarity_percent \in 0..100
        /\ 2 * Scale * res.body.similarity_percent - Scale <= (s + Scale) * 100
        /\ (s + Scale) * 100 < 2 * Scale * res.body.similarity_percent + Scale
        /\ s = Scale => res.body.similarity_percent = 100
        /\ s = 0 - Scale => res.body.similarity_percent = 0

\* C15: when latest-photo-similarity has answered a score for (user_id1,
\* user_id2), the same request with the two users exchanged, made on the
\* same tables, answers the same score.
C15_LatestPhotoSimilaritySymmetric ==
  (res.op = "latest_photo_similarity" /\ res.status = 200) =>
    LET back == LatestPhotoSimilarityReply(res.req.user_id2, res.req.user_id1)
    IN /\ back.status = 200
       /\ back.body.cosine_similarity = res.body.cosine_similarity

C15_Witness ==
  /\ res.op = "latest_photo_similarity"
  /\ res.status = 200
  /\ res.req.user_id1 # res.req.user_id2
  /\ res.body.cosine_similarity \in 1..(Scale - 1)

\* ================================================================ lookups
\* the request names a contest or a photo that is not stored
NamesMissing(r) ==
  \/ /\ r.op \in {"contest_entry_add", "update_contest_top3", "contest_top3",
                   "contests_status"}
     /\ r.req.contest_id # 0
     /\ r.req.contest_id \notin 1..Len(contests)
  \/ /\ r.op = "contest_entry_add"
     /\ r.req.user_photo_id # 0
     /\ r.req.user_photo_id \notin 1..Len(user_photos)
  \/ /\ r.op = "friend_similarity"
     /\ r.req.user_photo_id # 0
     /\ r.req.friend_photo_id # 0
     /\ \/ r.req.user_photo_id \notin 1..Len(user_photos)
        \/ r.req.friend_photo_id \notin 1..Len(user_photos)

\* C16: a request that names a contest or a photo that does not exist is
\* answered with an error status, never with a success payload, and changes
\* no table.
C16_MissingIdFails ==
  [][((res' # res \/ \E h \in Handlers : UpdateStep(h)) /\ NamesMissing(res')) =>
       /\ res'.status >= 400
       /\ StoreUnchanged]_vars

\* ================================================================= frames
\* C17: every step leaves the embedding of every stored photo, target photo
\* and contest as it is, and a row that a step inserts carries the embedding
\* the embedding service answered for that request.
C17_EmbeddingsNeverChange ==
  [][/\ Len(user_photos') >= Len(user_photos)
     /\ Len(target_photos') >= Len(target_photos)
     /\ Len(contests') >= Len(contests)
     /\ \A i \in 1..Len(user_photos') :
          user_photos'[i].embedding_vector =
            IF i <= Len(user_photos) THEN user_photos[i].embedding_vector
            ELSE res'.req.flask.embedding
     /\ \A i \in 1..Len(target_photos') :
          target_photos'[i].embedding_vector =
            IF i <= Len(target_photos) THEN target_photos[i].embedding_vector
            ELSE res'.req.flask.embedding
     /\ \A i \in 1..Len(contests') :
          contests'[i].target_embedding =
            IF i <= Len(contests) THEN contests[i].target_embedding
            ELSE res'.req.flask.embedding]_vars

\* a photo, a target photo and a ranked, closed contest are stored
C17_Witness ==
  /\ Len(user_photos) > 0
  /\ Len(target_photos) > 0
  /\ res.op = "update_contest_top3"
  /\ res.req.contest_id \in 1..Len(contests)
  /\ contests[res.req.contest_id].first_user_id # Null
  /\ contests[res.req.contest_id].status = "closed"
  /\ contests[res.req.contest_id].target_embedding = Vec(1, 0, EmbeddingDim)

\* C18: every winner column of a contest that is not null holds the id of
\* a user who has an entry in that contest.
C18_WinnersHaveEntries ==
  \A c \in 1..Len(contests) :
    \A k \in 1..3 :
      SlotUser(contests[c], k) # Null =>
        \E e \in EntriesOf(c) : e.user_id = SlotUser(contests[c], k)

C18_Witness ==
  \E c \in 1..Len(contests) :
    /\ \A k \in 1..3 : SlotUser(contests[c], k) # Null
    /\ contests[c].first_user_id # contests[c].third_user_id
    /\ \E h \in Handlers : top3[h].pc = "read"

\* C19: a PATCH /update_contest_top3 call answers and stores null for slot
\* k exactly when it read fewer than k entries; for an entry it read, the
\* response carries its photo id and its score (0 included) and the column
\* its user id.
C19_NullOnlyForMissingEntries ==
  [][\A h \in Handlers :
       UpdateStep(h) =>
         \A k \in 1..3 :
           LET present == k <= Len(top3[h].rows)
           IN /\ SlotScore(res'.body, k) =
                   IF present THEN top3[h].rows[k].similarity_score ELSE Null
              /\ SlotPhoto(res'.body, k) =
                   IF present THEN top3[h].rows[k].user_photo_id ELSE Null
              /\ top3[h].contest_id \in 1..Len(contests) =>
                   SlotUser(contests'[top3[h].contest_id], k) =
                     IF present THEN top3[h].rows[k].user_id ELSE Null]_vars

\* C20: the UPDATE of update_contest_top3 changes nothing but the three
\* winner columns of the contest it names (no status, no entry, no other
\* contest), and PATCH /contests/status changes nothing but the status of
\* the contest it names.
C20_RankingAndStatusIndependent ==
  [][/\ \A h \in Handlers :
          UpdateStep(h) =>
            /\ contest_entries' = contest_entries
            /\ Len(contests') = Len(contests)
            /\ \A c \in 1..Len(contests) :
                 /\ contests'[c].status = contests[c].status
                 /\ contests'[c].target_embedding = contests[c].target_embedding
                 /\ c # top3[h].contest_id => contests'[c] = contests[c]
     /\ (res' # res /\ res'.op = "contests_status") =>
          /\ contest_entries' = contest_entries
          /\ Len(contests') = Len(contests)
          /\ \A c \in 1..Len(contests) :
               /\ \A k \in 1..3 : SlotUser(contests'[c], k) = SlotUser(contests[c], k)
               /\ contests'[c].target_embedding = contests[c].target_embedding
               /\ c # res'.req.contest_id => contests'[c] = contests[c]]_vars

\* contest 1 is ranked and closed; contest 2, still active and without
\* entries, was ranked last
C20_Witness ==
  /\ Len(contests) = 2
  /\ contests[1].first_user_id # Null
  /\ contests[1].status = "closed"
  /\ contests[2].status = "active"
  /\ EntriesOf(2) = {}
  /\ res.op = "update_contest_top3"
  /\ res.req.contest_id = 2

\* ======================================================== connection pool
NoRequestInFlight ==
  \A h \in Handlers : top3[h].pc = "idle" /\ registering[h].pc = "idle"

\* C21: whenever no request is in flight, no client of the pool is checked
\* out: every handler has released the client it took.
C21_EveryClientReleased ==
  NoRequestInFlight => pool_clients = 0

\* C22: whenever no request is in flight, a client of the pool is free, so
\* that the next request that needs one is answered (a client that was not
\* released is never released later, so a pool without a free client stays
\* so and every later pool.connect() waits for ever).
C22_NextRequestGetsAClient ==
  NoRequestInFlight =>
    /\ CanConnect
    /\ ENABLED find_most_similar(JsArray(Vec(1, 0, EmbeddingDim)))

\* ========================================================== winners read
Top3Slot(body, k) ==
  IF k = 1 THEN body.first ELSE IF k = 2 THEN body.second ELSE body.third

\* C23: a GET /contest-top3 answered right after the answer of a
\* PATCH /update_contest_top3 on the same contest carries, in each of first,
\* second and third, the user_photo_id and the similarity_score the ranking
\* answered for that slot, and null where the ranking answered null.
C23_Top3ReadsBackTheRanking ==
  [][(/\ res.op = "update_contest_top3"
      /\ res.status = 200
      /\ res'.op = "contest_top3"
      /\ res'.status = 200
      /\ res'.req.contest_id = res.req.contest_id) =>
        \A k \in 1..3 :
          IF SlotPhoto(res.body, k) = Null
          THEN Top3Slot(res'.body, k) = <<>>
          ELSE /\ Top3Slot(res'.body, k) # <<>>
               /\ Top3Slot(res'.body, k)[1].user_photo_id = SlotPhoto(res.body, k)
               /\ Top3Slot(res'.body, k)[1].similarity_score = SlotScore(res.body, k)]_vars

\* C24: the winner columns of a contest that are not null hold pairwise
\* different user ids.
C24_WinnersAreDistinctUsers ==
  \A c \in 1..Len(contests) :
    \A j, k \in 1..3 :
      (j < k /\ SlotUser(contests[c], j) # Null /\ SlotUser(contests[c], k) # Null) =>
        SlotUser(contests[c], j) # SlotUser(contests[c], k)

\* ================================================================ accounts
\* C25: no two rows of users hold the same email, and a registration whose
\* email is stored when its INSERT is due is answered 409 and adds no row.
C25_OneUserPerEmail ==
  /\ [](\A i, j \in UserIds : users[i].email = users[j].email => i = j)
  /\ [][\A h \in Handlers :
          (/\ registering[h].pc = "checked"
           /\ registering'[h].pc = "idle"
           /\ \E i \in UserIds : users[i].email = registering[h].email) =>
             /\ res'.status = 409
             /\ users' = users]_vars

\* C26: the record a kakao login answers, and the nickname in its token,
\* are those of the user's row as it is stored when the login completes.
C26_LoginReturnsStoredRecord ==
  (res.op = "auth_kakao_login" /\ res.status = 200) =>
    /\ res.body.user.user_id \in UserIds
    /\ res.body.user.nickname = users[res.body.user.user_id].nickname
    /\ res.body.user.profile_image_url = users[res.body.user.user_id].profile_image_url
    /\ res.body.token.nickname = users[res.body.user.user_id].nickname

\* C27: a PATCH /userupdate without userid or without any of nickname,
\* profile_image_url and is_online is answered 400, one for an unknown
\* userid 404, both without a change; any other sets, on the row of that
\* user, exactly the fields the request carries and changes nothing else.
C27_UserUpdateChangesGivenFields ==
  [][(res' # res /\ res'.op = "userupdate") =>
       LET q == res'.req
       IN /\ UNCHANGED <<contents, friendships, registering>>
          /\ IF \/ q.userid = 0
                \/ /\ q.nickname = "undefined"
                   /\ q.profile_image_url = "undefined"
                   /\ q.is_online = "undefined"
             THEN res'.status = 400 /\ users' = users
             ELSE IF q.userid \notin UserIds
             THEN res'.status = 404 /\ users' = users
             ELSE /\ res'.status = 200
                  /\ Len(users') = Len(users)
                  /\ \A i \in UserIds : i # q.userid => users'[i] = users[i]
                  /\ users'[q.userid].nickname =
                       IF q.nickname = "undefined" THEN users[q.userid].nickname
                       ELSE q.nickname
                  /\ users'[q.userid].profile_image_url =
                       IF q.profile_image_url = "undefined"
                       THEN users[q.userid].profile_image_url
                       ELSE q.profile_image_url
                  /\ users'[q.userid].is_online =
                       IF q.is_online = "undefined" THEN users[q.userid].is_online
                       ELSE q.is_online
                  /\ users'[q.userid].user_id = users[q.userid].user_id
                  /\ users'[q.userid].kakao_id = users[q.userid].kakao_id
                  /\ users'[q.userid].email = users[q.userid].email
                  /\ users'[q.userid].password = users[q.userid].password]_vars

\* two users are stored and the second one was set offline, nothing else
C27_Witness ==
  /\ res.op = "userupdate"
  /\ res.status = 200
  /\ res.req.userid = 2
  /\ res.req.nickname = "undefined"
  /\ res.req.is_online = "false"
  /\ Len(users) = 2
  /\ users[2].is_online = "false"
  /\ users[2].nickname = "bob"
  /\ users[1].is_online = "true"

\* C28: a PATCH /update_isonline with the id of a stored user and is_online
\* true or false leaves that user's is_online at the value given.
C28_IsOnlineIsSet ==
  [][(/\ res' # res
      /\ res'.op = "update_isonline"
      /\ res'.req.user_id \in UserIds
      /\ res'.req.is_online \in {"true", "false"}) =>
        users'[res'.req.user_id].is_online = res'.req.is_online]_vars

\* ================================================================ friends
\* some friendships row between a and b, in either direction, is accepted
Accepted(a, b) ==
  \E i \in FriendshipIds :
    /\ friendships[i].status = "accepted"
    /\ \/ friendships[i].requester_user_id = a /\ friendships[i].receiver_user_id = b
       \/ friendships[i].requester_user_id = b /\ friendships[i].receiver_user_id = a

Lists(rows, b) == \E i \in 1..Len(rows) : rows[i].user.userId = b

\* C29: the list GET /friends answers for user A holds user B exactly when
\* a friendships row between A and B, in either direction, is accepted, and
\* holds accepted rows only; and B is in the list of A exactly when A is in
\* the list of B.
C29_FriendsAreAcceptedPairs ==
  /\ (res.op = "friends" /\ res.status = 200) =>
       /\ \A b \in UserIds : Lists(res.body, b) <=> Accepted(res.req.me, b)
       /\ \A i \in 1..Len(res.body) : res.body[i].status = "accepted"
  /\ \A a, b \in UserIds : Lists(FriendsRows(a), b) <=> Lists(FriendsRows(b), a)

\* user 2 is listed for a request user 1 received, next to a row that is not
\* accepted or was deleted
C29_Witness ==
  /\ res.op = "friends"
  /\ res.status = 200
  /\ Len(res.body) = 1
  /\ res.body[1].direction = "incoming"
  /\ Len(friendships) = 2
  /\ \E i \in 1..Len(friendships) :
       friendships[i].deleted \/ friendships[i].status \in {"pending", "rejected"}

====
